---- MODULE Spec2Model ----
(***************************************************************************)
(* State-machine model of the Glamora contracts: CreatorProfile (creator   *)
(* registry), ContentPayment (content ledger) and GlamoraHub (facade).     *)
(* Every public function is a pure operator over a "world" record w that   *)
(* holds the storage of the three contracts and the account balances; it   *)
(* returns the world after the call, or the world before it together with  *)
(* the revert reason (a failed require, or a failed transfer, reverts the   *)
(* whole transaction, nested calls included).  One action per transaction. *)
(* In Spec and SpecConc every transaction executes at one block timestamp; *)
(* SpecRegistry and SpecCatalog let the timestamp advance.                 *)
(* SpecLedger calls the ledger directly, SpecFee exercises the Hub's       *)
(* platform fee, and SpecBreaker models the CircuitBreaker that guards the *)
(* Lambda handlers' DynamoDB calls.                                        *)
(***************************************************************************)
EXTENDS Integers, Sequences, FiniteSets, TLC

\* ---------------------------------------------------------------- bounds
MaxContent == 2       \* createContent is capped at this many content ids
MaxPrice == 2         \* prices range over 0..MaxPrice
InitBalance == 3      \* starting balance of every user account
MaxTime == 2          \* block timestamps range over 1..MaxTime

\* ------------------------------------------------------------ input sets
ZeroAddr == "0x0"
\* the account that deploys the Hub
Deployer == "deployer"
Users == {"alice", "bob"}
HubAddr == "hub"
LedgerAddr == "ledger"
Accounts == Users \cup {ZeroAddr, HubAddr, LedgerAddr}
Holders == Users \cup {ZeroAddr}
ContentIds == 1..MaxContent
Prices == 0..MaxPrice
Values == 1..(MaxPrice + 1)
Usernames == {"", "Alice"}
Bios == {"Bio"}
Titles == {"", "Tutorial"}
Hashes == {"", "QmHash123"}
TxIds == {"t1", "t2"}
\* whether the creator and the buyer accept a payment sent to them
Accepts == {[creator |-> TRUE, buyer |-> TRUE], [creator |-> FALSE, buyer |-> TRUE], [creator |-> TRUE, buyer |-> FALSE]}

VARIABLES creators, totalCreators, contents, userAccess, creatorContents,
          nextContentId, totalRevenue, balance, created, purchased, last, txs,
          owner, platformFee, breaker, clock, inFlight

vars == <<creators, totalCreators, contents, userAccess, creatorContents,
          nextContentId, totalRevenue, balance, created, purchased, last, txs,
          owner, platformFee, breaker, clock, inFlight>>

\* the circuit breaker of the Lambda layer, the wall clock and the wrapped
\* operations in flight; no contract call touches them
breakerVars == <<breaker, clock, inFlight>>

\* --------------------------------------------------------------- storage
NoCreator == [username |-> "", bio |-> "", wallet |-> ZeroAddr, createdAt |-> 0, isActive |-> FALSE]

NoContent == [contentId |-> 0, creator |-> ZeroAddr, title |-> "", contentHash |-> "", price |-> 0, createdAt |-> 0, isActive |-> FALSE]

NoTx == [status |-> "idle", sender |-> ZeroAddr, id |-> 0, value |-> 0, price |-> 0, active |-> FALSE, result |-> ""]

Max(S) == CHOOSE x \in S : \A y \in S : y <= x

\* block.timestamp never decreases from one transaction to the next: it is
\* at least the latest timestamp stored so far
LatestTimestamp ==
    Max({1} \cup {creators[a].createdAt : a \in Holders} \cup {contents[i].createdAt : i \in ContentIds})

\* the storage and balances, with the timestamp of the block the next
\* transaction executes in (w.now); by default the block of the latest one
World == [creators |-> creators, totalCreators |-> totalCreators, contents |-> contents, userAccess |-> userAccess, creatorContents |-> creatorContents, nextContentId |-> nextContentId, totalRevenue |-> totalRevenue, balance |-> balance, created |-> created, purchased |-> purchased, now |-> LatestTimestamp, owner |-> owner, platformFee |-> platformFee]

Ok(w, ret) == [ok |-> TRUE, err |-> "ok", ret |-> ret, w |-> w]

Revert(w, msg) == [ok |-> FALSE, err |-> msg, ret |-> 0, w |-> w]

\* msg.value moves from the caller to the callee when the call is entered
Pay(w, from, to, amount) == [w EXCEPT !.balance = [@ EXCEPT ![from] = @ - amount, ![to] = @ + amount]]

\* ------------------------------------------------- CreatorProfile contract
\* variant: an existing record is overwritten and counted again
registerCreator_overwrite(w, _creator, _username, _bio) ==
    IF ~(Len(_username) > 0) THEN Revert(w, "Username cannot be empty")
    ELSE IF ~(Len(_username) <= 50) THEN Revert(w, "Username too long")
    ELSE IF ~(Len(_bio) <= 500) THEN Revert(w, "Bio too long")
    ELSE Ok([w EXCEPT !.creators[_creator] = [username |-> _username, bio |-> _bio, wallet |-> _creator, createdAt |-> w.now, isActive |-> TRUE],
                      !.totalCreators = @ + 1], 0)

\* variant: the already-registered check comes before the input checks
registerCreator_activeFirst(w, _creator, _username, _bio) ==
    IF ~(~w.creators[_creator].isActive) THEN Revert(w, "Creator already registered")
    ELSE IF ~(Len(_username) > 0) THEN Revert(w, "Username cannot be empty")
    ELSE IF ~(Len(_username) <= 50) THEN Revert(w, "Username too long")
    ELSE IF ~(Len(_bio) <= 500) THEN Revert(w, "Bio too long")
    ELSE Ok([w EXCEPT !.creators[_creator] = [username |-> _username, bio |-> _bio, wallet |-> _creator, createdAt |-> w.now, isActive |-> TRUE],
                      !.totalCreators = @ + 1], 0)

registerCreator(w, _creator, _username, _bio) ==
    IF ~(Len(_username) > 0) THEN Revert(w, "Username cannot be empty")
    ELSE IF ~(Len(_username) <= 50) THEN Revert(w, "Username too long")
    ELSE IF ~(Len(_bio) <= 500) THEN Revert(w, "Bio too long")
    ELSE IF ~(~w.creators[_creator].isActive) THEN Revert(w, "Creator already registered")
    ELSE Ok([w EXCEPT !.creators[_creator] = [username |-> _username, bio |-> _bio, wallet |-> _creator, createdAt |-> w.now, isActive |-> TRUE],
                      !.totalCreators = @ + 1], 0)

\* variant: the record is replaced by a fresh one, whose isActive is unset
updateCreator_resetsRecord(w, msgSender, _username, _bio) ==
    IF ~w.creators[msgSender].isActive THEN Revert(w, "Creator not registered")
    ELSE IF ~(Len(_username) > 0) THEN Revert(w, "Username cannot be empty")
    ELSE IF ~(Len(_username) <= 50) THEN Revert(w, "Username too long")
    ELSE IF ~(Len(_bio) <= 500) THEN Revert(w, "Bio too long")
    ELSE Ok([w EXCEPT !.creators[msgSender] = [username |-> _username, bio |-> _bio, wallet |-> msgSender, createdAt |-> w.now, isActive |-> FALSE]], 0)

\* variant: the update also stamps the record with the current time
updateCreator_restampsCreatedAt(w, msgSender, _username, _bio) ==
    IF ~w.creators[msgSender].isActive THEN Revert(w, "Creator not registered")
    ELSE IF ~(Len(_username) > 0) THEN Revert(w, "Username cannot be empty")
    ELSE IF ~(Len(_username) <= 50) THEN Revert(w, "Username too long")
    ELSE IF ~(Len(_bio) <= 500) THEN Revert(w, "Bio too long")
    ELSE Ok([w EXCEPT !.creators[msgSender].username = _username,
                      !.creators[msgSender].bio = _bio,
                      !.creators[msgSender].createdAt = w.now], 0)

updateCreator(w, msgSender, _username, _bio) ==
    IF ~w.creators[msgSender].isActive THEN Revert(w, "Creator not registered")
    ELSE IF ~(Len(_username) > 0) THEN Revert(w, "Username cannot be empty")
    ELSE IF ~(Len(_username) <= 50) THEN Revert(w, "Username too long")
    ELSE IF ~(Len(_bio) <= 500) THEN Revert(w, "Bio too long")
    ELSE Ok([w EXCEPT !.creators[msgSender].username = _username,
                      !.creators[msgSender].bio = _bio], 0)

getCreator(w, _wallet) ==
    IF ~w.creators[_wallet].isActive THEN Revert(w, "Creator not found")
    ELSE Ok(w, w.creators[_wallet])

isCreator(w, _wallet) == w.creators[_wallet].isActive

\* ------------------------------------------------- ContentPayment contract
\* variant: the id counter is not advanced
createContent_noIncrement(w, _creator, _title, _contentHash, _price) ==
    IF ~(Len(_title) > 0) THEN Revert(w, "Title cannot be empty")
    ELSE IF ~(Len(_contentHash) > 0) THEN Revert(w, "Content hash cannot be empty")
    ELSE IF ~(_price > 0) THEN Revert(w, "Price must be greater than 0")
    ELSE LET contentId == w.nextContentId
         IN  Ok([w EXCEPT !.contents[contentId] = [contentId |-> contentId, creator |-> _creator, title |-> _title, contentHash |-> _contentHash, price |-> _price, createdAt |-> w.now, isActive |-> TRUE],
                          !.creatorContents[_creator] = Append(@, contentId),
                          !.created = Append(@, [contentId |-> contentId, creator |-> _creator])], contentId)

\* variant: the id of a deactivated content is given out again
createContent_reusesFreedId(w, _creator, _title, _contentHash, _price) ==
    IF ~(Len(_title) > 0) THEN Revert(w, "Title cannot be empty")
    ELSE IF ~(Len(_contentHash) > 0) THEN Revert(w, "Content hash cannot be empty")
    ELSE IF ~(_price > 0) THEN Revert(w, "Price must be greater than 0")
    ELSE LET freed == {i \in 1..(w.nextContentId - 1) : ~w.contents[i].isActive}
             contentId == IF freed # {} THEN CHOOSE i \in freed : TRUE ELSE w.nextContentId
         IN  Ok([w EXCEPT !.contents[contentId] = [contentId |-> contentId, creator |-> _creator, title |-> _title, contentHash |-> _contentHash, price |-> _price, createdAt |-> w.now, isActive |-> TRUE],
                          !.creatorContents[_creator] = Append(@, contentId),
                          !.nextContentId = IF freed # {} THEN @ ELSE @ + 1,
                          !.created = Append(@, [contentId |-> contentId, creator |-> _creator])], contentId)

\* variant: a rejected call still uses up an id
createContent_countsFailed(w, _creator, _title, _contentHash, _price) ==
    LET used == [w EXCEPT !.nextContentId = @ + 1]
    IN  IF ~(Len(_title) > 0) THEN Revert(used, "Title cannot be empty")
        ELSE IF ~(Len(_contentHash) > 0) THEN Revert(used, "Content hash cannot be empty")
        ELSE IF ~(_price > 0) THEN Revert(used, "Price must be greater than 0")
        ELSE LET contentId == w.nextContentId
             IN  Ok([w EXCEPT !.contents[contentId] = [contentId |-> contentId, creator |-> _creator, title |-> _title, contentHash |-> _contentHash, price |-> _price, createdAt |-> w.now, isActive |-> TRUE],
                              !.creatorContents[_creator] = Append(@, contentId),
                              !.nextContentId = @ + 1,
                              !.created = Append(@, [contentId |-> contentId, creator |-> _creator])], contentId)

createContent(w, _creator, _title, _contentHash, _price) ==
    IF ~(Len(_title) > 0) THEN Revert(w, "Title cannot be empty")
    ELSE IF ~(Len(_contentHash) > 0) THEN Revert(w, "Content hash cannot be empty")
    ELSE IF ~(_price > 0) THEN Revert(w, "Price must be greater than 0")
    ELSE LET contentId == w.nextContentId
         IN  Ok([w EXCEPT !.contents[contentId] = [contentId |-> contentId, creator |-> _creator, title |-> _title, contentHash |-> _contentHash, price |-> _price, createdAt |-> w.now, isActive |-> TRUE],
                          !.creatorContents[_creator] = Append(@, contentId),
                          !.nextContentId = @ + 1,
                          !.created = Append(@, [contentId |-> contentId, creator |-> _creator])], contentId)

\* payable(to).transfer(amount) from the ledger: fails (and reverts the
\* transaction) when the recipient does not accept the payment
transferOk(w, to, amount, accepts) == accepts /\ w.balance[LedgerAddr] >= amount

\* variants of purchaseRequire: the duplicate check moved to the front, the
\* self-purchase check dropped, the duplicate check dropped
purchaseRequire_reordered(w, _buyer, _contentId, msgValue) ==
    LET content == w.contents[_contentId]
    IN  IF ~(~w.userAccess[_buyer][_contentId]) THEN "Already purchased"
        ELSE IF ~content.isActive THEN "Content not found or inactive"
        ELSE IF ~(msgValue >= content.price) THEN "Insufficient payment"
        ELSE IF ~(_buyer # content.creator) THEN "Creators cannot buy their own content"
        ELSE "ok"

purchaseRequire_noSelfCheck(w, _buyer, _contentId, msgValue) ==
    LET content == w.contents[_contentId]
    IN  IF ~content.isActive THEN "Content not found or inactive"
        ELSE IF ~(msgValue >= content.price) THEN "Insufficient payment"
        ELSE IF ~(~w.userAccess[_buyer][_contentId]) THEN "Already purchased"
        ELSE "ok"

purchaseRequire_noDupCheck(w, _buyer, _contentId, msgValue) ==
    LET content == w.contents[_contentId]
    IN  IF ~content.isActive THEN "Content not found or inactive"
        ELSE IF ~(msgValue >= content.price) THEN "Insufficient payment"
        ELSE IF ~(_buyer # content.creator) THEN "Creators cannot buy their own content"
        ELSE "ok"

\* the four require statements, in source order; "ok" when all pass
\* variant: a repeated purchase is refused only when it pays the exact price
purchaseRequire_dupCheckExactOnly(w, _buyer, _contentId, msgValue) ==
    LET content == w.contents[_contentId]
    IN  IF ~content.isActive THEN "Content not found or inactive"
        ELSE IF ~(msgValue >= content.price) THEN "Insufficient payment"
        ELSE IF w.userAccess[_buyer][_contentId] /\ msgValue = content.price THEN "Already purchased"
        ELSE IF ~(_buyer # content.creator) THEN "Creators cannot buy their own content"
        ELSE "ok"

\* variant: content that is not active can be bought
purchaseRequire_noActiveCheck(w, _buyer, _contentId, msgValue) ==
    LET content == w.contents[_contentId]
    IN  IF ~(msgValue >= content.price) THEN "Insufficient payment"
        ELSE IF ~(~w.userAccess[_buyer][_contentId]) THEN "Already purchased"
        ELSE IF ~(_buyer # content.creator) THEN "Creators cannot buy their own content"
        ELSE "ok"

purchaseRequire(w, _buyer, _contentId, msgValue) ==
    LET content == w.contents[_contentId]
    IN  IF ~content.isActive THEN "Content not found or inactive"
        ELSE IF ~(msgValue >= content.price) THEN "Insufficient payment"
        ELSE IF ~(~w.userAccess[_buyer][_contentId]) THEN "Already purchased"
        ELSE IF ~(_buyer # content.creator) THEN "Creators cannot buy their own content"
        ELSE "ok"

\* variant: the grant is not recorded
grantAccess_lost(w, _buyer, _contentId) == w

\* variant: the buyer is granted everything the creator has published
grantAccess_bundle(w, _buyer, _contentId) ==
    [w EXCEPT !.userAccess[_buyer] =
        [i \in ContentIds |-> @[i] \/ (w.contents[i].isActive /\ w.contents[i].creator = w.contents[_contentId].creator)]]

grantAccess(w, _buyer, _contentId) == [w EXCEPT !.userAccess[_buyer][_contentId] = TRUE]

\* variant: the amount sent is counted instead of the price
addRevenue_msgValue(w, price, msgValue) == [w EXCEPT !.totalRevenue = @ + msgValue]

addRevenue(w, price, msgValue) == [w EXCEPT !.totalRevenue = @ + price]

\* variant: the excess is kept by the ledger
refundExcess_none(w, _buyer, price, msgValue) == w

refundExcess(w, _buyer, price, msgValue) ==
    IF msgValue > price THEN Pay(w, LedgerAddr, _buyer, msgValue - price) ELSE w

\* a failed transfer reverts: the storage and balances before the call (w0)
\* are restored and everything the call did so far (w) is discarded
transferFailed(w0, w) == Revert(w0, "TransferFailed")

emitContentPurchased(w, _contentId, _buyer, content) ==
    [w EXCEPT !.purchased = Append(@, [contentId |-> _contentId, buyer |-> _buyer, creator |-> content.creator, price |-> content.price])]

\* variant: the creator is sent the whole amount and nothing is refunded
purchaseContent_paysValue(w0, msgSender, _buyer, _contentId, msgValue, acc) ==
    LET w == Pay(w0, msgSender, LedgerAddr, msgValue)
        content == w.contents[_contentId]
        failed == purchaseRequire(w, _buyer, _contentId, msgValue)
    IN  IF failed # "ok" THEN Revert(w0, failed)
        ELSE LET w1 == grantAccess(w, _buyer, _contentId)
             IN  IF ~transferOk(w1, content.creator, msgValue, acc.creator) THEN transferFailed(w0, w1)
                 ELSE LET w2 == Pay(w1, LedgerAddr, content.creator, msgValue)
                          w3 == addRevenue(w2, content.price, msgValue)
                      IN  Ok(emitContentPurchased(w3, _contentId, _buyer, content), 0)

\* variant: the price stays in the ledger instead of going to the creator
purchaseContent_noPayout(w0, msgSender, _buyer, _contentId, msgValue, acc) ==
    LET w == Pay(w0, msgSender, LedgerAddr, msgValue)
        content == w.contents[_contentId]
        failed == purchaseRequire(w, _buyer, _contentId, msgValue)
    IN  IF failed # "ok" THEN Revert(w0, failed)
        ELSE LET w1 == grantAccess(w, _buyer, _contentId)
                 w3 == addRevenue(w1, content.price, msgValue)
             IN  IF msgValue > content.price /\ ~transferOk(w3, _buyer, msgValue - content.price, acc.buyer) THEN transferFailed(w0, w3)
                 ELSE Ok(emitContentPurchased(refundExcess(w3, _buyer, content.price, msgValue), _contentId, _buyer, content), 0)

purchaseContent(w0, msgSender, _buyer, _contentId, msgValue, acc) ==
    LET w == Pay(w0, msgSender, LedgerAddr, msgValue)
        content == w.contents[_contentId]
        failed == purchaseRequire(w, _buyer, _contentId, msgValue)
    IN  IF failed # "ok" THEN Revert(w0, failed)
        ELSE LET w1 == grantAccess(w, _buyer, _contentId)
             IN  IF ~transferOk(w1, content.creator, content.price, acc.creator) THEN transferFailed(w0, w1)
                 ELSE LET w2 == Pay(w1, LedgerAddr, content.creator, content.price)
                          w3 == addRevenue(w2, content.price, msgValue)
                      IN  IF msgValue > content.price /\ ~transferOk(w3, _buyer, msgValue - content.price, acc.buyer) THEN transferFailed(w0, w3)
                          ELSE Ok(emitContentPurchased(refundExcess(w3, _buyer, content.price, msgValue), _contentId, _buyer, content), 0)

\* variants of updateContentPrice: the price is stored before it is checked
\* and the failure keeps it; the price check comes before the owner check
updateContentPrice_writeFirst(w, msgSender, _contentId, _newPrice) ==
    LET content == w.contents[_contentId]
    IN  IF ~content.isActive THEN Revert(w, "Content not found")
        ELSE IF ~(content.creator = msgSender) THEN Revert(w, "Only creator can update")
        ELSE IF ~(_newPrice > 0) THEN Revert([w EXCEPT !.contents[_contentId].price = _newPrice], "Price must be greater than 0")
        ELSE Ok([w EXCEPT !.contents[_contentId].price = _newPrice], 0)

updateContentPrice_priceFirst(w, msgSender, _contentId, _newPrice) ==
    LET content == w.contents[_contentId]
    IN  IF ~content.isActive THEN Revert(w, "Content not found")
        ELSE IF ~(_newPrice > 0) THEN Revert(w, "Price must be greater than 0")
        ELSE IF ~(content.creator = msgSender) THEN Revert(w, "Only creator can update")
        ELSE Ok([w EXCEPT !.contents[_contentId].price = _newPrice], 0)

\* variant: the revenue already booked is re-valued at the new price
updateContentPrice_touchesRevenue(w, msgSender, _contentId, _newPrice) ==
    LET content == w.contents[_contentId]
    IN  IF ~content.isActive THEN Revert(w, "Content not found")
        ELSE IF ~(content.creator = msgSender) THEN Revert(w, "Only creator can update")
        ELSE IF ~(_newPrice > 0) THEN Revert(w, "Price must be greater than 0")
        ELSE Ok([w EXCEPT !.contents[_contentId].price = _newPrice,
                          !.totalRevenue = @ + _newPrice - content.price], 0)

updateContentPrice(w, msgSender, _contentId, _newPrice) ==
    LET content == w.contents[_contentId]
    IN  IF ~content.isActive THEN Revert(w, "Content not found")
        ELSE IF ~(content.creator = msgSender) THEN Revert(w, "Only creator can update")
        ELSE IF ~(_newPrice > 0) THEN Revert(w, "Price must be greater than 0")
        ELSE Ok([w EXCEPT !.contents[_contentId].price = _newPrice], 0)

\* variant: access is gated on the content being active
hasAccess_activeOnly(w, _user, _contentId) ==
    IF ~w.contents[_contentId].isActive THEN FALSE
    ELSE IF w.contents[_contentId].creator = _user THEN TRUE
    ELSE w.userAccess[_user][_contentId]

hasAccess(w, _user, _contentId) ==
    IF w.contents[_contentId].creator = _user THEN TRUE
    ELSE w.userAccess[_user][_contentId]

\* variant: deactivated content is left out of the creator's list
getCreatorContent_activeOnly(w, _creator) ==
    SelectSeq(w.creatorContents[_creator], LAMBDA i : w.contents[i].isActive)

getCreatorContent(w, _creator) == w.creatorContents[_creator]

getContent(w, _contentId) ==
    IF ~w.contents[_contentId].isActive THEN Revert(w, "Content not found")
    ELSE Ok(w, w.contents[_contentId])

\* variants of deactivateContent: the owner check comes before the active
\* check; the owner check is missing
deactivateContent_ownerFirst(w, msgSender, _contentId) ==
    LET content == w.contents[_contentId]
    IN  IF ~(content.creator = msgSender) THEN Revert(w, "Only creator can deactivate")
        ELSE IF ~content.isActive THEN Revert(w, "Content not found")
        ELSE Ok([w EXCEPT !.contents[_contentId].isActive = FALSE], 0)

deactivateContent_noOwnerCheck(w, msgSender, _contentId) ==
    LET content == w.contents[_contentId]
    IN  IF ~content.isActive THEN Revert(w, "Content not found")
        ELSE Ok([w EXCEPT !.contents[_contentId].isActive = FALSE], 0)

\* variant: deactivation also deletes the grants of the content
deactivateContent_revokes(w, msgSender, _contentId) ==
    LET content == w.contents[_contentId]
    IN  IF ~content.isActive THEN Revert(w, "Content not found")
        ELSE IF ~(content.creator = msgSender) THEN Revert(w, "Only creator can deactivate")
        ELSE Ok([w EXCEPT !.contents[_contentId].isActive = FALSE,
                          !.userAccess = [a \in Holders |-> [@[a] EXCEPT ![_contentId] = FALSE]]], 0)

\* variant: the record is deleted instead of being marked inactive
deactivateContent_deletesRecord(w, msgSender, _contentId) ==
    LET content == w.contents[_contentId]
    IN  IF ~content.isActive THEN Revert(w, "Content not found")
        ELSE IF ~(content.creator = msgSender) THEN Revert(w, "Only creator can deactivate")
        ELSE Ok([w EXCEPT !.contents[_contentId] = NoContent], 0)

deactivateContent(w, msgSender, _contentId) ==
    LET content == w.contents[_contentId]
    IN  IF ~content.isActive THEN Revert(w, "Content not found")
        ELSE IF ~(content.creator = msgSender) THEN Revert(w, "Only creator can deactivate")
        ELSE Ok([w EXCEPT !.contents[_contentId].isActive = FALSE], 0)

\* ----------------------------------------------------- GlamoraHub contract
hubRegisterCreator(w, msgSender, username, bio) == registerCreator(w, msgSender, username, bio)

\* variant: the Hub does not ask the registry
hubCreateContent_noCheck(w, msgSender, title, contentHash, price) ==
    createContent(w, msgSender, title, contentHash, price)

hubCreateContent(w, msgSender, title, contentHash, price) ==
    IF ~isCreator(w, msgSender) THEN Revert(w, "Must be registered creator")
    ELSE createContent(w, msgSender, title, contentHash, price)

\* variant: the two steps commit independently
registerAndCreateContent_partial(w, msgSender, username, bio, title, contentHash, price) ==
    LET r1 == IF ~isCreator(w, msgSender) THEN registerCreator(w, msgSender, username, bio) ELSE Ok(w, 0)
    IN  IF ~r1.ok THEN Revert(w, r1.err)
        ELSE LET r2 == createContent(r1.w, msgSender, title, contentHash, price)
             IN  IF ~r2.ok THEN Revert(r1.w, r2.err) ELSE r2

\* variant: the registration is attempted whether or not the caller is
\* registered
registerAndCreateContent_alwaysRegisters(w, msgSender, username, bio, title, contentHash, price) ==
    LET r1 == registerCreator(w, msgSender, username, bio)
    IN  IF ~r1.ok THEN Revert(w, r1.err)
        ELSE LET r2 == createContent(r1.w, msgSender, title, contentHash, price)
             IN  IF ~r2.ok THEN Revert(w, r2.err) ELSE r2

\* variant: the content is created without registering the caller
registerAndCreateContent_skipsRegistration(w, msgSender, username, bio, title, contentHash, price) ==
    createContent(w, msgSender, title, contentHash, price)

registerAndCreateContent(w, msgSender, username, bio, title, contentHash, price) ==
    LET r1 == IF ~isCreator(w, msgSender) THEN registerCreator(w, msgSender, username, bio) ELSE Ok(w, 0)
    IN  IF ~r1.ok THEN Revert(w, r1.err)
        ELSE LET r2 == createContent(r1.w, msgSender, title, contentHash, price)
             IN  IF ~r2.ok THEN Revert(w, r2.err) ELSE r2

\* variant: the failure of the ledger call is reported but does not revert
\* the Hub's own call, which keeps the value it received
hubPurchaseContent_noBubble(w0, msgSender, contentId, msgValue, acc) ==
    purchaseContent(Pay(w0, msgSender, HubAddr, msgValue), HubAddr, msgSender, contentId, msgValue, acc)

hubPurchaseContent(w0, msgSender, contentId, msgValue, acc) ==
    LET w == Pay(w0, msgSender, HubAddr, msgValue)
        r == purchaseContent(w, HubAddr, msgSender, contentId, msgValue, acc)
    IN  IF ~r.ok THEN Revert(w0, r.err) ELSE r

\* variant: the id counter itself is reported as the number of contents
getPlatformStats_offByOne(w) ==
    [totalCreators |-> w.totalCreators, totalContent |-> w.nextContentId, totalRevenue |-> w.totalRevenue]

getPlatformStats(w) ==
    [totalCreators |-> w.totalCreators, totalContent |-> w.nextContentId - 1, totalRevenue |-> w.totalRevenue]

\* the Hub's constructor: the deployer becomes the owner, the fee starts at 0
constructor(w, msgSender) == [w EXCEPT !.owner = msgSender, !.platformFee = 0]

\* the highest fee updatePlatformFee accepts, in basis points
MaxPlatformFee == 1000

\* variant: any caller may set the fee
updatePlatformFee_anyCaller(w, msgSender, _newFee) ==
    IF ~(_newFee <= MaxPlatformFee) THEN Revert(w, "Fee cannot exceed 10%")
    ELSE Ok([w EXCEPT !.platformFee = _newFee], 0)

updatePlatformFee(w, msgSender, _newFee) ==
    IF ~(msgSender = w.owner) THEN Revert(w, "Only owner can update fee")
    ELSE IF ~(_newFee <= MaxPlatformFee) THEN Revert(w, "Fee cannot exceed 10%")
    ELSE Ok([w EXCEPT !.platformFee = _newFee], 0)

\* ------------------------------------------------------------ transitions
\* new CircuitBreaker(): closed, nothing counted, nothing in flight
NewBreaker == [failureCount |-> 0, lastFailureTime |-> 0, state |-> "CLOSED"]

BreakerIdle ==
    /\ breaker = NewBreaker
    /\ clock = 0
    /\ inFlight = 0

InitWorld ==
    [creators |-> [a \in Holders |-> NoCreator],
     totalCreators |-> 0,
     contents |-> [i \in ContentIds |-> NoContent],
     userAccess |-> [a \in Holders |-> [i \in ContentIds |-> FALSE]],
     creatorContents |-> [a \in Holders |-> <<>>],
     nextContentId |-> 1,
     totalRevenue |-> 0,
     balance |-> [a \in Accounts |-> IF a \in Users THEN InitBalance ELSE 0],
     created |-> <<>>,
     purchased |-> <<>>,
     now |-> 1,
     owner |-> Deployer,
     platformFee |-> 0]

IsWorld(w) ==
    /\ creators = w.creators
    /\ totalCreators = w.totalCreators
    /\ contents = w.contents
    /\ userAccess = w.userAccess
    /\ creatorContents = w.creatorContents
    /\ nextContentId = w.nextContentId
    /\ totalRevenue = w.totalRevenue
    /\ balance = w.balance
    /\ created = w.created
    /\ purchased = w.purchased
    /\ owner = w.owner
    /\ platformFee = w.platformFee

Init ==
    /\ IsWorld(InitWorld)
    /\ last = [op |-> "deploy", sender |-> ZeroAddr, id |-> 0, value |-> 0, result |-> "ok", ret |-> 0]
    /\ txs = [t \in TxIds |-> NoTx]
    /\ BreakerIdle

\* the transaction's effect on storage and balances, and its visible result
Commit(op, sender, id, value, r) ==
    /\ creators' = r.w.creators
    /\ totalCreators' = r.w.totalCreators
    /\ contents' = r.w.contents
    /\ userAccess' = r.w.userAccess
    /\ creatorContents' = r.w.creatorContents
    /\ nextContentId' = r.w.nextContentId
    /\ totalRevenue' = r.w.totalRevenue
    /\ balance' = r.w.balance
    /\ created' = r.w.created
    /\ purchased' = r.w.purchased
    /\ owner' = r.w.owner
    /\ platformFee' = r.w.platformFee
    /\ UNCHANGED breakerVars
    /\ last' = [op |-> op, sender |-> sender, id |-> id, value |-> value, result |-> r.err, ret |-> r.ret]

RegisterCreator ==
    \E a \in Users, u \in Usernames, b \in Bios :
        /\ Commit("registerCreator", a, 0, 0, hubRegisterCreator(World, a, u, b))
        /\ UNCHANGED txs

UpdateCreator ==
    \E a \in Users, u \in Usernames, b \in Bios :
        /\ Commit("updateCreator", a, 0, 0, updateCreator(World, a, u, b))
        /\ UNCHANGED txs

HubCreateContent ==
    \E a \in Users, t \in Titles, h \in Hashes, p \in Prices :
        /\ nextContentId <= MaxContent
        /\ Commit("createContent", a, 0, p, hubCreateContent(World, a, t, h, p))
        /\ UNCHANGED txs

RegisterAndCreateContent ==
    \E a \in Users, u \in Usernames, b \in Bios, t \in Titles, h \in Hashes, p \in Prices :
        /\ nextContentId <= MaxContent
        /\ Commit("registerAndCreateContent", a, 0, p, registerAndCreateContent(World, a, u, b, t, h, p))
        /\ UNCHANGED txs

HubPurchaseContent ==
    \E a \in Users, i \in ContentIds, v \in Values, acc \in Accepts :
        /\ v <= balance[a]
        /\ Commit("purchaseContent", a, i, v, hubPurchaseContent(World, a, i, v, acc))
        /\ UNCHANGED txs

UpdateContentPrice ==
    \E a \in Users, i \in ContentIds, p \in Prices :
        /\ Commit("updateContentPrice", a, i, p, updateContentPrice(World, a, i, p))
        /\ UNCHANGED txs

DeactivateContent ==
    \E a \in Users, i \in ContentIds :
        /\ Commit("deactivateContent", a, i, 0, deactivateContent(World, a, i))
        /\ UNCHANGED txs

Next ==
    \/ RegisterCreator
    \/ UpdateCreator
    \/ HubCreateContent
    \/ RegisterAndCreateContent
    \/ HubPurchaseContent
    \/ UpdateContentPrice
    \/ DeactivateContent

Spec == Init /\ [][Next]_vars

\* ------------------------------------------- concurrently issued purchases
\* Transactions are submitted to the chain independently of each other and
\* wait in flight; the chain executes them one at a time, in any order, and
\* interleaved with the owner's price updates and deactivation.  A mined
\* transaction keeps what it observed: the content's price and active flag
\* when it executed, and its result.
InitConc ==
    \E c \in Users, p \in 1..MaxPrice :
        LET r == registerAndCreateContent(InitWorld, c, "Alice", "Bio", "Tutorial", "QmHash123", p)
        IN  /\ IsWorld(r.w)
            /\ last = [op |-> "registerAndCreateContent", sender |-> c, id |-> 0, value |-> p, result |-> r.err, ret |-> r.ret]
            /\ txs = [t \in TxIds |-> NoTx]
            /\ BreakerIdle

Submit(t) ==
    \E a \in Users, i \in 1..(nextContentId - 1), v \in Values :
        /\ txs[t].status = "idle"
        /\ txs' = [txs EXCEPT ![t] = [NoTx EXCEPT !.status = "pending", !.sender = a, !.id = i, !.value = v]]
        /\ UNCHANGED <<creators, totalCreators, contents, userAccess, creatorContents, nextContentId, totalRevenue, balance, created, purchased, last>>
        /\ UNCHANGED <<owner, platformFee, breaker, clock, inFlight>>

Mine(t) ==
    \E acc \in Accepts :
        LET tx == txs[t]
            r == hubPurchaseContent(World, tx.sender, tx.id, tx.value, acc)
        IN  /\ tx.status = "pending"
            /\ tx.value <= balance[tx.sender]
            /\ Commit("purchaseContent", tx.sender, tx.id, tx.value, r)
            /\ txs' = [txs EXCEPT ![t] = [tx EXCEPT !.status = "mined", !.price = contents[tx.id].price, !.active = contents[tx.id].isActive, !.result = r.err]]

SubmitTx == \E t \in TxIds : Submit(t)

MineTx == \E t \in TxIds : Mine(t)

NextConc ==
    \/ SubmitTx
    \/ MineTx
    \/ UpdateContentPrice
    \/ DeactivateContent

SpecConc == InitConc /\ [][NextConc]_vars

\* ------------------------------------------------------ creator registry
\* The registry on its own, with usernames and bios at and beyond the length
\* limits; the executed call keeps the username and bio it was given.
RECURSIVE Repeat(_, _)
Repeat(s, n) ==
    IF n = 0 THEN ""
    ELSE IF n % 2 = 0 THEN LET h == Repeat(s, n \div 2) IN h \o h
    ELSE s \o Repeat(s, n - 1)

RegUsernames == {"", "Alice", "Bob", Repeat("u", 50), Repeat("u", 51)}

RegBios == {"", "Fashion creator", Repeat("b", 500), Repeat("b", 501)}

InitRegistry ==
    /\ IsWorld(InitWorld)
    /\ last = [op |-> "deploy", sender |-> ZeroAddr, id |-> 0, value |-> 0, result |-> "ok", ret |-> 0, username |-> "", bio |-> ""]
    /\ txs = [t \in TxIds |-> NoTx]
    /\ BreakerIdle

CommitProfile(op, sender, u, b, r) ==
    /\ creators' = r.w.creators
    /\ totalCreators' = r.w.totalCreators
    /\ contents' = r.w.contents
    /\ userAccess' = r.w.userAccess
    /\ creatorContents' = r.w.creatorContents
    /\ nextContentId' = r.w.nextContentId
    /\ totalRevenue' = r.w.totalRevenue
    /\ balance' = r.w.balance
    /\ created' = r.w.created
    /\ purchased' = r.w.purchased
    /\ owner' = r.w.owner
    /\ platformFee' = r.w.platformFee
    /\ UNCHANGED breakerVars
    /\ last' = [op |-> op, sender |-> sender, id |-> 0, value |-> 0, result |-> r.err, ret |-> r.ret, username |-> u, bio |-> b]

\* the world as a transaction executing in a block of timestamp t finds it
AtTime(t) == [World EXCEPT !.now = t]

RegistryRegister ==
    \E a \in Users, u \in RegUsernames, b \in RegBios, t \in LatestTimestamp..MaxTime :
        /\ CommitProfile("registerCreator", a, u, b, hubRegisterCreator(AtTime(t), a, u, b))
        /\ UNCHANGED txs

RegistryUpdate ==
    \E a \in Users, u \in RegUsernames, b \in RegBios :
        /\ CommitProfile("updateCreator", a, u, b, updateCreator(World, a, u, b))
        /\ UNCHANGED txs

NextRegistry ==
    \/ RegistryRegister
    \/ RegistryUpdate

SpecRegistry == InitRegistry /\ [][NextRegistry]_vars

\* ------------------------------------------------------- content catalog
\* Registration, profile update and content creation (through the Hub and
\* directly on the ledger, whose createContent is public), without
\* purchases; the executed call keeps all the arguments it was given.
\* For a direct ledger call, sender is the _creator argument.
CatUsernames == {"", "Alice", "Bob"}

CatBios == {"Bio"}

CatPrices == {0, 1}

InitCatalog ==
    /\ IsWorld(InitWorld)
    /\ last = [op |-> "deploy", sender |-> ZeroAddr, id |-> 0, value |-> 0, result |-> "ok", ret |-> 0, username |-> "", bio |-> "", title |-> "", contentHash |-> ""]
    /\ txs = [t \in TxIds |-> NoTx]
    /\ BreakerIdle

CommitCatalog(op, sender, u, b, t, h, p, r) ==
    /\ creators' = r.w.creators
    /\ totalCreators' = r.w.totalCreators
    /\ contents' = r.w.contents
    /\ userAccess' = r.w.userAccess
    /\ creatorContents' = r.w.creatorContents
    /\ nextContentId' = r.w.nextContentId
    /\ totalRevenue' = r.w.totalRevenue
    /\ balance' = r.w.balance
    /\ created' = r.w.created
    /\ purchased' = r.w.purchased
    /\ owner' = r.w.owner
    /\ platformFee' = r.w.platformFee
    /\ UNCHANGED breakerVars
    /\ last' = [op |-> op, sender |-> sender, id |-> 0, value |-> p, result |-> r.err, ret |-> r.ret, username |-> u, bio |-> b, title |-> t, contentHash |-> h]

CatalogRegister ==
    \E a \in Users, u \in CatUsernames, b \in CatBios, ts \in LatestTimestamp..MaxTime :
        /\ CommitCatalog("registerCreator", a, u, b, "", "", 0, hubRegisterCreator(AtTime(ts), a, u, b))
        /\ UNCHANGED txs

CatalogUpdate ==
    \E a \in Users, u \in CatUsernames, b \in CatBios, ts \in LatestTimestamp..MaxTime :
        /\ CommitCatalog("updateCreator", a, u, b, "", "", 0, updateCreator(AtTime(ts), a, u, b))
        /\ UNCHANGED txs

CatalogCreateContent ==
    \E a \in Users, t \in Titles, h \in Hashes, p \in CatPrices, ts \in LatestTimestamp..MaxTime :
        /\ nextContentId <= MaxContent
        /\ CommitCatalog("createContent", a, "", "", t, h, p, hubCreateContent(AtTime(ts), a, t, h, p))
        /\ UNCHANGED txs

CatalogLedgerCreateContent ==
    \E c \in Users, t \in Titles, h \in Hashes, p \in CatPrices, ts \in LatestTimestamp..MaxTime :
        /\ nextContentId <= MaxContent
        /\ CommitCatalog("ContentPayment.createContent", c, "", "", t, h, p, createContent(AtTime(ts), c, t, h, p))
        /\ UNCHANGED txs

CatalogRegisterAndCreate ==
    \E a \in Users, u \in CatUsernames, b \in CatBios, t \in Titles, h \in Hashes, p \in CatPrices, ts \in LatestTimestamp..MaxTime :
        /\ nextContentId <= MaxContent
        /\ CommitCatalog("registerAndCreateContent", a, u, b, t, h, p, registerAndCreateContent(AtTime(ts), a, u, b, t, h, p))
        /\ UNCHANGED txs

NextCatalog ==
    \/ CatalogRegister
    \/ CatalogUpdate
    \/ CatalogCreateContent
    \/ CatalogLedgerCreateContent
    \/ CatalogRegisterAndCreate

SpecCatalog == InitCatalog /\ [][NextCatalog]_vars

\* ------------------------------------------------------------ platform fee
\* Anyone deploys the Hub; afterwards every account may call
\* updatePlatformFee with any fee, between the Hub's other operations
\* (registration, content creation and purchases with valid arguments).
\* For updatePlatformFee the executed call keeps _newFee as its value.
FeeCallers == Users \cup {Deployer}

FeeInputs == {0, 250, MaxPlatformFee, MaxPlatformFee + 1}

InitFee ==
    \E d \in FeeCallers :
        /\ IsWorld(constructor(InitWorld, d))
        /\ last = [op |-> "deploy", sender |-> d, id |-> 0, value |-> 0, result |-> "ok", ret |-> 0]
        /\ txs = [t \in TxIds |-> NoTx]
        /\ BreakerIdle

FeeUpdate ==
    \E a \in FeeCallers, f \in FeeInputs :
        /\ Commit("updatePlatformFee", a, 0, f, updatePlatformFee(World, a, f))
        /\ UNCHANGED txs

FeeRegisterAndCreate ==
    \E a \in Users :
        /\ nextContentId <= 1
        /\ Commit("registerAndCreateContent", a, 0, 1, registerAndCreateContent(World, a, "Alice", "Bio", "Tutorial", "QmHash123", 1))
        /\ UNCHANGED txs

FeePurchase ==
    \E a \in Users, i \in {1}, v \in {1}, acc \in Accepts :
        /\ v <= balance[a]
        /\ Commit("purchaseContent", a, i, v, hubPurchaseContent(World, a, i, v, acc))
        /\ UNCHANGED txs

NextFee ==
    \/ FeeUpdate
    \/ FeeRegisterAndCreate
    \/ FeePurchase

SpecFee == InitFee /\ [][NextFee]_vars

\* --------------------------------------------------------- circuit breaker
\* dynamoCircuitBreaker = new CircuitBreaker(): the constructor's defaults
failureThreshold == 3

recoveryTimeout == 30000

MaxInFlight == 2      \* wrapped operations awaited at the same time
MaxElapsed == 3       \* the clock stops after this many recovery periods

\* variant: the breaker probes as soon as the timeout has been reached
execute_probesAtTimeout(b, now) ==
    IF b.state = "OPEN"
    THEN IF now - b.lastFailureTime >= recoveryTimeout
         THEN [breaker |-> [b EXCEPT !.state = "HALF_OPEN"], invoked |-> TRUE, err |-> "ok"]
         ELSE [breaker |-> b, invoked |-> FALSE, err |-> "Service temporarily unavailable"]
    ELSE [breaker |-> b, invoked |-> TRUE, err |-> "ok"]

\* execute up to its await: the breaker after the state check, whether the
\* wrapped operation was invoked, and the error thrown if it was not
execute(b, now) ==
    IF b.state = "OPEN"
    THEN IF now - b.lastFailureTime > recoveryTimeout
         THEN [breaker |-> [b EXCEPT !.state = "HALF_OPEN"], invoked |-> TRUE, err |-> "ok"]
         ELSE [breaker |-> b, invoked |-> FALSE, err |-> "Service temporarily unavailable"]
    ELSE [breaker |-> b, invoked |-> TRUE, err |-> "ok"]

\* variant: a success closes the breaker but keeps the count
onSuccess_keepsCount(b) == [b EXCEPT !.state = "CLOSED"]

onSuccess(b) == [b EXCEPT !.failureCount = 0, !.state = "CLOSED"]

onFailure(b, now) ==
    LET counted == [b EXCEPT !.failureCount = @ + 1, !.lastFailureTime = now]
    IN  IF counted.failureCount >= failureThreshold
        THEN [counted EXCEPT !.state = "OPEN"]
        ELSE counted

\* The Lambda handlers call execute on the one breaker; a call runs to its
\* await, the wrapped DynamoDB operation settles later, either way, and
\* other calls may start in between.  Date.now() advances between steps by
\* exactly the recovery timeout or by one millisecond more.  The executed
\* step keeps the number of failures since the last success and the state
\* it found.
contractVars == <<creators, totalCreators, contents, userAccess, creatorContents,
                  nextContentId, totalRevenue, balance, created, purchased, txs,
                  owner, platformFee>>

InitBreaker ==
    /\ IsWorld(InitWorld)
    /\ txs = [t \in TxIds |-> NoTx]
    /\ BreakerIdle
    /\ last = [op |-> "new", result |-> "ok", streak |-> 0, from |-> "CLOSED"]

BreakerExecute ==
    LET r == execute(breaker, clock)
    IN  /\ r.invoked => inFlight < MaxInFlight
        /\ breaker' = r.breaker
        /\ inFlight' = IF r.invoked THEN inFlight + 1 ELSE inFlight
        /\ last' = [op |-> "execute", result |-> r.err, streak |-> last.streak, from |-> breaker.state]
        /\ UNCHANGED clock
        /\ UNCHANGED contractVars

BreakerResolve ==
    /\ inFlight > 0
    /\ breaker' = onSuccess(breaker)
    /\ inFlight' = inFlight - 1
    /\ last' = [op |-> "onSuccess", result |-> "ok", streak |-> 0, from |-> breaker.state]
    /\ UNCHANGED clock
    /\ UNCHANGED contractVars

BreakerReject ==
    /\ inFlight > 0
    /\ breaker' = onFailure(breaker, clock)
    /\ inFlight' = inFlight - 1
    /\ last' = [op |-> "onFailure", result |-> "rejected", streak |-> last.streak + 1, from |-> breaker.state]
    /\ UNCHANGED clock
    /\ UNCHANGED contractVars

BreakerTick ==
    \E d \in {recoveryTimeout, recoveryTimeout + 1} :
        /\ clock + d <= MaxElapsed * (recoveryTimeout + 1)
        /\ clock' = clock + d
        /\ last' = [last EXCEPT !.op = "tick", !.result = "ok"]
        /\ UNCHANGED <<breaker, inFlight>>
        /\ UNCHANGED contractVars

NextBreaker ==
    \/ BreakerExecute
    \/ BreakerResolve
    \/ BreakerReject
    \/ BreakerTick

SpecBreaker == InitBreaker /\ [][NextBreaker]_vars

\* ------------------------------------------------------ the ledger, direct
\* ContentPayment's functions are public: any account may call them
\* without the Hub, naming any address, the zero address included, as
\* _creator or _buyer.  Purchases also arrive through the Hub.  The
\* executed call keeps the _buyer it named; for createContent, sender is
\* the _creator argument.  The zero address holds no code and accepts
\* every payment.
LedgerPrices == {0, 1}

LedgerValues == {1, 2}

MaxLedgerContent == 1     \* direct createContent is capped at this many ids

InitLedger ==
    /\ IsWorld(InitWorld)
    /\ last = [op |-> "deploy", sender |-> ZeroAddr, buyer |-> ZeroAddr, id |-> 0, value |-> 0, result |-> "ok", ret |-> 0]
    /\ txs = [t \in TxIds |-> NoTx]
    /\ BreakerIdle

CommitLedger(op, sender, buyer, id, value, r) ==
    /\ creators' = r.w.creators
    /\ totalCreators' = r.w.totalCreators
    /\ contents' = r.w.contents
    /\ userAccess' = r.w.userAccess
    /\ creatorContents' = r.w.creatorContents
    /\ nextContentId' = r.w.nextContentId
    /\ totalRevenue' = r.w.totalRevenue
    /\ balance' = r.w.balance
    /\ created' = r.w.created
    /\ purchased' = r.w.purchased
    /\ owner' = r.w.owner
    /\ platformFee' = r.w.platformFee
    /\ last' = [op |-> op, sender |-> sender, buyer |-> buyer, id |-> id, value |-> value, result |-> r.err, ret |-> r.ret]
    /\ UNCHANGED breakerVars

LedgerCreateContent ==
    \E c \in Holders, t \in Titles, p \in LedgerPrices :
        /\ nextContentId <= MaxLedgerContent
        /\ CommitLedger("ContentPayment.createContent", c, ZeroAddr, 0, p, createContent(World, c, t, "QmHash123", p))
        /\ UNCHANGED txs

LedgerPurchaseContent ==
    \E a \in Users, b \in Holders, i \in ContentIds, v \in LedgerValues, acc \in Accepts :
        /\ v <= balance[a]
        /\ contents[i].creator = ZeroAddr => acc.creator
        /\ b = ZeroAddr => acc.buyer
        /\ CommitLedger("ContentPayment.purchaseContent", a, b, i, v, purchaseContent(World, a, b, i, v, acc))
        /\ UNCHANGED txs

LedgerHubPurchaseContent ==
    \E a \in Users, i \in ContentIds, v \in LedgerValues, acc \in Accepts :
        /\ v <= balance[a]
        /\ contents[i].creator = ZeroAddr => acc.creator
        /\ CommitLedger("purchaseContent", a, a, i, v, hubPurchaseContent(World, a, i, v, acc))
        /\ UNCHANGED txs

LedgerDeactivateContent ==
    \E a \in Users, i \in ContentIds :
        /\ CommitLedger("deactivateContent", a, ZeroAddr, i, 0, deactivateContent(World, a, i))
        /\ UNCHANGED txs

NextLedger ==
    \/ LedgerCreateContent
    \/ LedgerPurchaseContent
    \/ LedgerHubPurchaseContent
    \/ LedgerDeactivateContent

SpecLedger == InitLedger /\ [][NextLedger]_vars

TypeOK ==
    /\ nextContentId \in 1..(MaxContent + 1)
    /\ totalRevenue \in Nat
    /\ \A a \in Accounts : balance[a] \in Nat

\* ------------------------------------------------------------- error kinds
ErrNotFound == "Content not found or inactive"
ErrInsufficientPayment == "Insufficient payment"
ErrAlreadyPurchased == "Already purchased"
ErrSelfPurchase == "Creators cannot buy their own content"
ErrTransferFailed == "TransferFailed"
ErrInvalidContent == {"Title cannot be empty", "Content hash cannot be empty", "Price must be greater than 0"}

ErrContentNotFound == "Content not found"
ErrOnlyCreatorUpdate == "Only creator can update"
ErrPriceNotPositive == "Price must be greater than 0"
ErrOnlyCreatorDeactivate == "Only creator can deactivate"
ErrAlreadyRegistered == "Creator already registered"

ErrNotRegistered == "Must be registered creator"
ErrCreatorNotRegistered == "Creator not registered"
ErrInvalidProfile == {"Username cannot be empty", "Username too long", "Bio too long"}

Exists(i) == i \in 1..(nextContentId - 1)

\* the purchase transaction that has just executed, seen from the step
IsPurchase == last'.op = "purchaseContent"

WorldUnchanged == World' = World

\* ----------------------------------------------------------------- C1
Mined(t) == txs[t].status = "mined"

SameTarget(t, u) == txs[t].sender = txs[u].sender /\ txs[t].id = txs[u].id

ValidPayment(t) == txs[t].active /\ txs[t].value >= txs[t].price

GrantsOf(b, i) == {k \in 1..Len(purchased) : purchased[k].buyer = b /\ purchased[k].contentId = i}

ExactlyOneWins(t, u) ==
    /\ \/ txs[t].result = "ok" /\ txs[u].result = ErrAlreadyPurchased /\ totalRevenue = txs[t].price
       \/ txs[u].result = "ok" /\ txs[t].result = ErrAlreadyPurchased /\ totalRevenue = txs[u].price
    /\ Cardinality(GrantsOf(txs[t].sender, txs[t].id)) = 1

RECURSIVE SumPrices(_)
SumPrices(s) == IF s = <<>> THEN 0 ELSE s[1].price + SumPrices(Tail(s))

\* C2: totalRevenue is the sum, over the completed purchases, of the price
\* each was made at; a price update or a deactivation never changes it.
C2_RevenueIdentity ==
    /\ [](totalRevenue = SumPrices(purchased))
    /\ [][last'.op \in {"updateContentPrice", "deactivateContent"} => totalRevenue' = totalRevenue]_vars

C2_Witness ==
    \E k \in 1..Len(purchased) :
        /\ contents[purchased[k].contentId].price # purchased[k].price
        /\ ~contents[purchased[k].contentId].isActive
        /\ Len(purchased) >= 2

\* ----------------------------------------------------------------- C3
\* C3: a grant, once made, stays: in every step a buyer who holds a grant
\* keeps it and hasAccess stays true, whatever the operation.
C3_GrantNeverRevoked ==
    [][\A b \in Holders, i \in ContentIds :
          userAccess[b][i] => (userAccess'[b][i] /\ hasAccess(World', b, i))]_vars

C3_Witness ==
    \E b \in Users, i \in ContentIds :
        /\ userAccess[b][i] /\ hasAccess(World, b, i)
        /\ ~contents[i].isActive
        /\ last.op = "deactivateContent" /\ last.result = "ok" /\ last.id = i

\* ----------------------------------------------------------------- C4
ExpectedPurchaseError(b, i, v) ==
    IF ~Exists(i) \/ ~contents[i].isActive THEN ErrNotFound
    ELSE IF v < contents[i].price THEN ErrInsufficientPayment
    ELSE IF userAccess[b][i] THEN ErrAlreadyPurchased
    ELSE IF b = contents[i].creator THEN ErrSelfPurchase
    ELSE "none"

\* C4: a purchase reports the first failing precondition in the order
\* NotFound, InsufficientPayment, AlreadyPurchased, SelfPurchaseForbidden.
C4_PurchaseErrorOrder ==
    [][IsPurchase =>
          LET e == ExpectedPurchaseError(last'.sender, last'.id, last'.value)
          IN  IF e = "none" THEN last'.result \in {"ok", ErrTransferFailed}
              ELSE last'.result = e]_vars

\* several preconditions fail at once: inactive content, too small an amount
\* and an existing grant
C4_Witness ==
    /\ last.op = "purchaseContent"
    /\ Exists(last.id) /\ ~contents[last.id].isActive
    /\ last.value < contents[last.id].price
    /\ userAccess[last.sender][last.id]
    /\ last.result = ErrNotFound

\* ----------------------------------------------------------------- C5
PurchaseFullyApplied(b, i, v) ==
    LET p == contents[i].price
        c == contents[i].creator
    IN  /\ userAccess'[b][i]
        /\ totalRevenue' = totalRevenue + p
        /\ balance'[c] = balance[c] + p
        /\ balance'[b] = balance[b] - p
        /\ balance'[LedgerAddr] = balance[LedgerAddr]
        /\ balance'[HubAddr] = balance[HubAddr]

\* C5: a purchase whose transfer to the creator or refund to the buyer fails
\* leaves no grant, the same totalRevenue and the same balances; a purchase
\* either applies all its effects or none.
C5_TransferFailureAborts ==
    [][IsPurchase =>
          /\ (last'.result = ErrTransferFailed => WorldUnchanged)
          /\ (WorldUnchanged \/ (last'.result = "ok" /\ PurchaseFullyApplied(last'.sender, last'.id, last'.value)))]_vars

C5_Witness ==
    /\ last.op = "purchaseContent" /\ last.result = ErrTransferFailed
    /\ last.value > contents[last.id].price
    /\ ~userAccess[last.sender][last.id]
    /\ totalRevenue = 0
    /\ \A a \in Users : balance[a] = InitBalance

\* ----------------------------------------------------------------- C6
\* C6: registerAndCreateContent is all or nothing: a failing call changes
\* nothing (a caller that was unregistered stays unregistered, totalCreators
\* is unchanged), and a call that registers its caller has also created the
\* content, which passed validation.
C6_RegisterAndCreateAtomic ==
    [][last'.op = "registerAndCreateContent" =>
          LET a == last'.sender
              id == nextContentId
          IN  /\ (last'.result # "ok" => WorldUnchanged)
              /\ ((~isCreator(World, a) /\ last'.result \in ErrInvalidContent)
                     => (~isCreator(World', a) /\ totalCreators' = totalCreators))
              /\ ((~isCreator(World, a) /\ isCreator(World', a))
                     => /\ last'.result = "ok"
                        /\ last'.ret = id
                        /\ nextContentId' = id + 1
                        /\ contents'[id].creator = a
                        /\ contents'[id].isActive
                        /\ contents'[id].title # ""
                        /\ contents'[id].contentHash # ""
                        /\ contents'[id].price > 0)]_vars

C6_Witness ==
    /\ last.op = "registerAndCreateContent"
    /\ last.result = "Title cannot be empty"
    /\ ~isCreator(World, last.sender)
    /\ totalCreators = 0

\* ----------------------------------------------------------------- C7
\* C7: a successful purchase with amountPaid = price + k, k > 0, credits the
\* creator with price, leaves the buyer price poorer (price + k paid, k
\* refunded) and adds price to totalRevenue; nothing stays in the contracts.
C7_OverpaymentRefund ==
    [][(IsPurchase /\ last'.result = "ok" /\ last'.value > contents[last'.id].price) =>
          LET p == contents[last'.id].price
              k == last'.value - p
              c == contents[last'.id].creator
              b == last'.sender
          IN  /\ balance'[c] = balance[c] + p
              /\ balance'[b] = (balance[b] - (p + k)) + k
              /\ totalRevenue' = totalRevenue + p
              /\ balance'[LedgerAddr] = balance[LedgerAddr]
              /\ balance'[HubAddr] = balance[HubAddr]]_vars

C7_Witness ==
    /\ last.op = "purchaseContent" /\ last.result = "ok"
    /\ Len(purchased) > 0
    /\ last.value > purchased[Len(purchased)].price
    /\ purchased[Len(purchased)].buyer = last.sender

\* ----------------------------------------------------------------- C8
OwnContent(b, i) == Exists(i) /\ contents[i].creator = b

\* C8 as stated: a purchase of the creator's own content fails with
\* SelfPurchaseForbidden for every amount.
C8_AsStated ==
    [][(IsPurchase /\ OwnContent(last'.sender, last'.id)) => last'.result = ErrSelfPurchase]_vars

\* C8 (amended): a purchase of the creator's own content always fails and
\* changes nothing; the error is SelfPurchaseForbidden whenever the content is
\* active and the amount is at least the price (also above it).
C8_SelfPurchaseRejected ==
    [][(IsPurchase /\ OwnContent(last'.sender, last'.id)) =>
          /\ last'.result # "ok"
          /\ WorldUnchanged
          /\ ((contents[last'.id].isActive /\ last'.value >= contents[last'.id].price)
                 => last'.result = ErrSelfPurchase)]_vars

C8_Witness ==
    /\ last.op = "purchaseContent" /\ last.result = ErrSelfPurchase
    /\ OwnContent(last.sender, last.id)
    /\ last.value > contents[last.id].price

\* ----------------------------------------------------------------- C9
\* C9 as stated: once a buyer has purchased a content, every later purchase
\* by that buyer of that content fails with AlreadyPurchased, whatever the
\* amount.
C9_AsStated ==
    [][(IsPurchase /\ userAccess[last'.sender][last'.id]) => last'.result = ErrAlreadyPurchased]_vars

\* C9 (amended): every later purchase fails and changes nothing; the error is
\* AlreadyPurchased whenever the content is still active and the amount is at
\* least its current price.
C9_RepurchaseRejected ==
    [][(IsPurchase /\ userAccess[last'.sender][last'.id]) =>
          /\ last'.result # "ok"
          /\ WorldUnchanged
          /\ ((contents[last'.id].isActive /\ last'.value >= contents[last'.id].price)
                 => last'.result = ErrAlreadyPurchased)]_vars

C9_Witness ==
    /\ last.op = "purchaseContent" /\ last.result = ErrAlreadyPurchased
    /\ userAccess[last.sender][last.id]
    /\ last.value > contents[last.id].price
    /\ Cardinality(GrantsOf(last.sender, last.id)) = 1

\* ----------------------------------------------------------------- C10
\* C10: content ids start at 1 and grow by one with every creation, in
\* commit order and across creators; an id is never assigned twice, and ids
\* not yet assigned hold no content.
C10_IdsStrictlyIncreasing ==
    /\ nextContentId = Len(created) + 1
    /\ \A k \in 1..Len(created) : created[k].contentId = k
    /\ \A i \in ContentIds :
          IF i \in 1..Len(created)
          THEN contents[i].contentId = i /\ contents[i].creator = created[i].creator
          ELSE contents[i] = NoContent

C10_Witness ==
    /\ Len(created) >= 2
    /\ created[1].creator # created[2].creator
    /\ ~contents[1].isActive
    /\ contents[2].isActive

\* ----------------------------------------------------------------- C11
\* C11: in every reachable state getPlatformStats returns the number of
\* creator records, the number of contents ever created (active or not) and
\* the sum of the prices paid in the completed purchases.
C11_StatsMatchRecords ==
    getPlatformStats(World) =
        [totalCreators |-> Cardinality({a \in Holders : creators[a] # NoCreator}),
         totalContent |-> Cardinality({i \in ContentIds : contents[i] # NoContent}),
         totalRevenue |-> SumPrices(purchased)]

C11_Witness ==
    /\ getPlatformStats(World).totalCreators = 2
    /\ getPlatformStats(World).totalContent = 2
    /\ getPlatformStats(World).totalRevenue > 0
    /\ ~contents[1].isActive

\* ----------------------------------------------------------------- C12
\* C12: a call that fails, whichever operation it is, leaves creator
\* records, content records, grants, nextContentId, totalCreators,
\* totalRevenue and every balance as they were.
C12_FailedCallChangesNothing ==
    [][last'.result # "ok" => WorldUnchanged]_vars

C12_Witness ==
    /\ last.op = "updateContentPrice"
    /\ last.result = ErrPriceNotPositive
    /\ contents[last.id].price > 0
    /\ totalRevenue > 0

\* ----------------------------------------------------------------- C13
ValidProfile(u, b) == Len(u) > 0 /\ Len(u) <= 50 /\ Len(b) <= 500

\* C13: registering an unregistered identity with a valid username and bio
\* succeeds, and getCreator then returns an active creator with exactly that
\* username and bio; registering a registered identity fails with "Creator
\* already registered" and leaves the stored creator and totalCreators as
\* they were.
C13_RegisterThenGet ==
    [][(last'.op = "registerCreator" /\ ValidProfile(last'.username, last'.bio)) =>
          IF ~isCreator(World, last'.sender)
          THEN /\ last'.result = "ok"
               /\ getCreator(World', last'.sender).ok
               /\ getCreator(World', last'.sender).ret.isActive
               /\ getCreator(World', last'.sender).ret.username = last'.username
               /\ getCreator(World', last'.sender).ret.bio = last'.bio
               /\ getCreator(World', last'.sender).ret.wallet = last'.sender
               /\ totalCreators' = totalCreators + 1
          ELSE /\ last'.result = ErrAlreadyRegistered
               /\ creators' = creators
               /\ totalCreators' = totalCreators]_vars

C13_Witness ==
    /\ last.op = "registerCreator"
    /\ last.result = ErrAlreadyRegistered
    /\ ValidProfile(last.username, last.bio)
    /\ getCreator(World, last.sender).ok
    /\ getCreator(World, last.sender).ret.username # last.username
    /\ Len(getCreator(World, last.sender).ret.username) = 50

\* ----------------------------------------------------------------- C14
\* C14: a registered identity stays registered in every later state; the
\* registry holds one record per identity, stored under that identity, and
\* totalCreators counts each registered identity once.
C14_RegistrationPermanent ==
    /\ [](/\ \A a \in Holders : isCreator(World, a) => creators[a].wallet = a
          /\ totalCreators = Cardinality({a \in Holders : isCreator(World, a)}))
    /\ [][\A a \in Holders : isCreator(World, a) => isCreator(World', a)]_vars

C14_Witness ==
    /\ last.op = "updateCreator" /\ last.result = "ok"
    /\ isCreator(World, last.sender)
    /\ totalCreators = 2

\* ----------------------------------------------------------------- C15
\* C15: a content whose isActive flag is false keeps it false in every later
\* state, whatever is executed afterwards.
C15_DeactivationIrreversible ==
    [][\A i \in ContentIds : (Exists(i) /\ ~contents[i].isActive) => ~contents'[i].isActive]_vars

C15_Witness ==
    \E i \in ContentIds :
        /\ Exists(i) /\ ~contents[i].isActive
        /\ last.op \in {"createContent", "registerAndCreateContent"}
        /\ last.result = "ok"
        /\ last.ret # i
        /\ contents[last.ret].isActive

\* ----------------------------------------------------------------- C16
\* C16: on a content that is not active (deactivated, or never created)
\* getContent fails with "Content not found", and purchaseContent,
\* updateContentPrice and deactivateContent fail with the not-found error for
\* every caller, the creator included, and every amount, changing nothing.
C16_InactiveIsNotFound ==
    /\ [](\A i \in ContentIds : ~contents[i].isActive =>
             /\ ~getContent(World, i).ok
             /\ getContent(World, i).err = ErrContentNotFound)
    /\ [][(/\ last'.op \in {"purchaseContent", "updateContentPrice", "deactivateContent"}
           /\ ~contents[last'.id].isActive) =>
             /\ last'.result = (IF last'.op = "purchaseContent" THEN ErrNotFound ELSE ErrContentNotFound)
             /\ WorldUnchanged]_vars

C16_Witness ==
    /\ last.op = "deactivateContent"
    /\ last.result = ErrContentNotFound
    /\ Exists(last.id) /\ ~contents[last.id].isActive
    /\ last.sender # contents[last.id].creator
    /\ ~getContent(World, last.id).ok

\* ----------------------------------------------------------------- C17
\* C17: for an existing content, active or not, hasAccess is true for its
\* creator, who holds no stored grant, and for anyone else it is true
\* exactly when a grant is stored.
C17_AccessOfExistingContent ==
    \A i \in ContentIds, u \in Holders :
        Exists(i) =>
            IF u = contents[i].creator
            THEN hasAccess(World, u, i) /\ ~userAccess[u][i]
            ELSE hasAccess(World, u, i) = userAccess[u][i]

C17_Witness ==
    \E i \in ContentIds, u \in Users :
        /\ Exists(i) /\ ~contents[i].isActive
        /\ u # contents[i].creator
        /\ userAccess[u][i] /\ hasAccess(World, u, i)
        /\ hasAccess(World, contents[i].creator, i)
        /\ last.op = "purchaseContent"

\* ----------------------------------------------------------------- C18
\* C18 as stated: for a content id that was never created hasAccess is
\* false for every identity, the zero identity included.
C18_AsStated ==
    \A i \in ContentIds, u \in Holders : ~Exists(i) => ~hasAccess(World, u, i)

\* ----------------------------------------------------------------- C19
ExpectedUpdatePriceError ==
    IF ~contents[last'.id].isActive THEN ErrContentNotFound
    ELSE IF contents[last'.id].creator # last'.sender THEN ErrOnlyCreatorUpdate
    ELSE IF ~(last'.value > 0) THEN ErrPriceNotPositive
    ELSE "ok"

\* C19: updateContentPrice reports the first failing check in the order
\* not found, only creator, price not positive, and succeeds when none
\* fails, storing the new price; a content's price changes only in a
\* successful updateContentPrice of its creator, and is always positive.
C19_UpdatePriceGuarded ==
    /\ [](\A i \in ContentIds : Exists(i) => contents[i].price > 0)
    /\ [][/\ last'.op = "updateContentPrice" =>
                /\ last'.result = ExpectedUpdatePriceError
                /\ last'.result = "ok" =>
                      contents' = [contents EXCEPT ![last'.id].price = last'.value]
          /\ \A i \in ContentIds :
                (Exists(i) /\ contents'[i].price # contents[i].price) =>
                    /\ last'.op = "updateContentPrice" /\ last'.result = "ok"
                    /\ last'.id = i
                    /\ last'.sender = contents[i].creator]_vars

C19_Witness ==
    /\ last.op = "updateContentPrice"
    /\ last.result = ErrOnlyCreatorUpdate
    /\ last.value = 0
    /\ contents[last.id].isActive
    /\ \E i \in ContentIds : Exists(i) /\ contents[i].price = MaxPrice

\* ----------------------------------------------------------------- C20
\* C20: isActive goes from true to false only in a successful
\* deactivateContent of that content called by its creator; called by anyone
\* else on an active content it fails with "Only creator can deactivate"
\* and the content stays active.
C20_OnlyCreatorDeactivates ==
    [][/\ \A i \in ContentIds :
             (contents[i].isActive /\ ~contents'[i].isActive) =>
                 /\ last'.op = "deactivateContent" /\ last'.result = "ok"
                 /\ last'.id = i
                 /\ last'.sender = contents[i].creator
       /\ (/\ last'.op = "deactivateContent"
           /\ contents[last'.id].isActive
           /\ last'.sender # contents[last'.id].creator) =>
             /\ last'.result = ErrOnlyCreatorDeactivate
             /\ contents'[last'.id].isActive
             /\ WorldUnchanged]_vars

C20_Witness ==
    /\ last.op = "deactivateContent"
    /\ last.result = ErrOnlyCreatorDeactivate
    /\ contents[last.id].isActive
    /\ \E i \in ContentIds : Exists(i) /\ ~contents[i].isActive

\* ----------------------------------------------------------------- C21
ValidContent(t, h, p) == Len(t) > 0 /\ Len(h) > 0 /\ p > 0

\* C21: the Hub's createContent called by an identity that is not a
\* registered creator fails with "Must be registered creator", creates no
\* content and leaves the id counter alone; called by a registered creator
\* with a valid title, hash and price it succeeds and the new content's
\* creator is the caller.
C21_HubCreateNeedsRegistration ==
    [][last'.op = "createContent" =>
          IF ~isCreator(World, last'.sender)
          THEN /\ last'.result = ErrNotRegistered
               /\ contents' = contents
               /\ nextContentId' = nextContentId
               /\ WorldUnchanged
          ELSE ValidContent(last'.title, last'.contentHash, last'.value) =>
               /\ last'.result = "ok"
               /\ last'.ret = nextContentId
               /\ nextContentId' = nextContentId + 1
               /\ contents'[last'.ret].creator = last'.sender
               /\ contents'[last'.ret].isActive]_vars

C21_Witness ==
    /\ last.op = "createContent"
    /\ last.result = ErrNotRegistered
    /\ ~isCreator(World, last.sender)
    /\ ValidContent(last.title, last.contentHash, last.value)
    /\ nextContentId = 2
    /\ totalCreators = 1

\* ----------------------------------------------------------------- C22
\* C22: a successful updateCreator overwrites the username and bio of the
\* caller's record and nothing else: createdAt, wallet and isActive of that
\* record, every other record, totalCreators and the whole ledger stay as
\* they were; called by an unregistered identity it fails with "Creator not
\* registered".
C22_UpdateOverwritesOnlyProfile ==
    [][last'.op = "updateCreator" =>
          IF ~isCreator(World, last'.sender)
          THEN last'.result = ErrCreatorNotRegistered /\ WorldUnchanged
          ELSE last'.result = "ok" =>
                  World' = [World EXCEPT !.creators[last'.sender].username = last'.username,
                                         !.creators[last'.sender].bio = last'.bio]]_vars

C22_Witness ==
    /\ last.op = "updateCreator" /\ last.result = "ok"
    /\ creators[last.sender].username = "Bob"
    /\ creators[last.sender].createdAt < LatestTimestamp
    /\ totalCreators = 2
    /\ nextContentId > 1

\* ----------------------------------------------------------------- C23
AllAccept == [creator |-> TRUE, buyer |-> TRUE]

CanBuy(a, i, v) ==
    /\ contents[i].isActive
    /\ a # contents[i].creator
    /\ ~userAccess[a][i]
    /\ v >= contents[i].price

\* C23: a purchase of active content by a buyer who is not its creator,
\* holds no grant and pays at least the price succeeds whenever the payment
\* transfers succeed (nothing else can fail it); afterwards the buyer has
\* access, the creator's balance is up by the price and the buyer's down by
\* exactly the price, and no other balance has moved.
C23_ValidPurchaseSucceeds ==
    /\ [](\A a \in Users, i \in ContentIds, v \in Values :
             (CanBuy(a, i, v) /\ v <= balance[a]) => hubPurchaseContent(World, a, i, v, AllAccept).ok)
    /\ [][(IsPurchase /\ CanBuy(last'.sender, last'.id, last'.value)) =>
             /\ last'.result \in {"ok", ErrTransferFailed}
             /\ last'.result = "ok" =>
                   /\ hasAccess(World', last'.sender, last'.id)
                   /\ balance' = [balance EXCEPT ![contents[last'.id].creator] = @ + contents[last'.id].price,
                                                 ![last'.sender] = @ - contents[last'.id].price]]_vars

C23_Witness ==
    /\ last.op = "purchaseContent" /\ last.result = "ok"
    /\ last.value > contents[last.id].price
    /\ hasAccess(World, last.sender, last.id)
    /\ balance[last.sender] = InitBalance - contents[last.id].price
    /\ balance[contents[last.id].creator] = InitBalance + contents[last.id].price

\* ----------------------------------------------------------------- C24
\* C24: a purchase call for a (buyer, content) pair that already holds a
\* grant, whatever the amount and whatever error it returns, leaves the
\* grants, totalRevenue and every balance as they were.
C24_RetryChargesNothing ==
    [][(IsPurchase /\ userAccess[last'.sender][last'.id]) =>
          /\ userAccess' = userAccess
          /\ totalRevenue' = totalRevenue
          /\ balance' = balance
          /\ purchased' = purchased]_vars

C24_Witness ==
    /\ last.op = "purchaseContent"
    /\ userAccess[last.sender][last.id]
    /\ last.result = ErrInsufficientPayment
    /\ Cardinality(GrantsOf(last.sender, last.id)) = 1

\* ----------------------------------------------------------------- C25
\* C25: getCreatorContent(creator) lists, in strictly increasing order and
\* therefore without duplicates, exactly the ids of the contents created
\* with that creator, deactivated ones included.
C25_CreatorContentIndex ==
    \A a \in Holders :
        LET s == getCreatorContent(World, a)
        IN  /\ \A k \in 1..(Len(s) - 1) : s[k] < s[k + 1]
            /\ {s[k] : k \in 1..Len(s)} = {i \in ContentIds : Exists(i) /\ contents[i].creator = a}

C25_Witness ==
    \E a \in Users, b \in Users :
        /\ a # b
        /\ getCreatorContent(World, a) = <<1>>
        /\ getCreatorContent(World, b) = <<2>>
        /\ ~contents[1].isActive

\* ----------------------------------------------------------------- C26
\* C26 as stated: in every completed purchase the creator receives 95% of
\* the price and the platform (the Hub and the ledger) retains 5%.
C26_AsStated ==
    [][(IsPurchase /\ last'.result = "ok") =>
          LET c == contents[last'.id].creator
              price == contents[last'.id].price
          IN  /\ 100 * (balance'[c] - balance[c]) = 95 * price
              /\ 100 * ((balance'[HubAddr] + balance'[LedgerAddr]) - (balance[HubAddr] + balance[LedgerAddr])) = 5 * price]_vars

\* ----------------------------------------------------------------- C27
ExpectedContentError ==
    IF ~(Len(last'.title) > 0) THEN "Title cannot be empty"
    ELSE IF ~(Len(last'.contentHash) > 0) THEN "Content hash cannot be empty"
    ELSE IF ~(last'.value > 0) THEN "Price must be greater than 0"
    ELSE "ok"

CreateOps == {"createContent", "ContentPayment.createContent", "registerAndCreateContent"}

\* C27: createContent (on the ledger, or through the Hub by a registered
\* creator) with an empty title, an empty hash or a price of 0 fails with
\* the matching input error and changes nothing: nextContentId, the
\* creator's list and the content count are as before; a failed creation of
\* any kind leaves nextContentId alone, and a successful one returns the
\* current nextContentId.
C27_InvalidContentConsumesNoId ==
    [][/\ (/\ \/ last'.op = "ContentPayment.createContent"
              \/ last'.op \in {"createContent", "registerAndCreateContent"} /\ isCreator(World, last'.sender)
           /\ ~ValidContent(last'.title, last'.contentHash, last'.value)) =>
             /\ last'.result = ExpectedContentError
             /\ last'.result \in ErrInvalidContent
             /\ nextContentId' = nextContentId
             /\ getCreatorContent(World', last'.sender) = getCreatorContent(World, last'.sender)
             /\ getPlatformStats(World').totalContent = getPlatformStats(World).totalContent
             /\ WorldUnchanged
       /\ (last'.op \in CreateOps /\ last'.result # "ok") => nextContentId' = nextContentId
       /\ (last'.op \in CreateOps /\ last'.result = "ok") =>
             /\ last'.ret = nextContentId
             /\ nextContentId' = nextContentId + 1]_vars

C27_Witness ==
    /\ last.op = "ContentPayment.createContent"
    /\ last.result = "Content hash cannot be empty"
    /\ Len(last.title) > 0 /\ last.value = 0
    /\ nextContentId = 2
    /\ getCreatorContent(World, last.sender) = <<>>

\* ----------------------------------------------------------------- C28
ExpectedRegisterError ==
    IF ~(Len(last'.username) > 0) THEN "Username cannot be empty"
    ELSE IF ~(Len(last'.username) <= 50) THEN "Username too long"
    ELSE IF ~(Len(last'.bio) <= 500) THEN "Bio too long"
    ELSE IF isCreator(World, last'.sender) THEN ErrAlreadyRegistered
    ELSE "ok"

\* C28: registerCreator fails with an input error when the username is
\* empty or longer than 50 or the bio is longer than 500, whether or not
\* the identity is registered; with valid input and a registered identity
\* it fails with "Creator already registered"; a failing call stores no
\* creator and leaves totalCreators alone.
C28_RegisterErrors ==
    [][last'.op = "registerCreator" =>
          /\ last'.result = ExpectedRegisterError
          /\ ~ValidProfile(last'.username, last'.bio) => last'.result \in ErrInvalidProfile
          /\ (ValidProfile(last'.username, last'.bio) /\ isCreator(World, last'.sender)) =>
                last'.result = ErrAlreadyRegistered
          /\ last'.result # "ok" =>
                /\ creators' = creators
                /\ totalCreators' = totalCreators
                /\ WorldUnchanged]_vars

C28_Witness ==
    /\ last.op = "registerCreator"
    /\ last.result = "Bio too long"
    /\ Len(last.username) = 50 /\ Len(last.bio) = 501
    /\ isCreator(World, last.sender)
    /\ totalCreators = 1

\* ----------------------------------------------------------------- C29
\* C29: registerAndCreateContent called by a registered identity registers
\* nothing: the creator records (username, bio, createdAt) and totalCreators
\* are as before, the username and bio arguments are not checked, and the
\* call succeeds or fails exactly as the content creation does.
C29_RegisteredCallerOnlyCreates ==
    [][(last'.op = "registerAndCreateContent" /\ isCreator(World, last'.sender)) =>
          /\ creators' = creators
          /\ totalCreators' = totalCreators
          /\ last'.result = ExpectedContentError
          /\ last'.result = "ok" =>
                /\ last'.ret = nextContentId
                /\ contents'[last'.ret].creator = last'.sender
                /\ contents'[last'.ret].isActive]_vars

C29_Witness ==
    /\ last.op = "registerAndCreateContent" /\ last.result = "ok"
    /\ last.username = ""
    /\ creators[last.sender].username = "Bob"
    /\ creators[last.sender].createdAt < contents[last.ret].createdAt
    /\ totalCreators = 1

\* ----------------------------------------------------------------- C30
\* C30: a successful updateContentPrice changes the price of the addressed
\* content and nothing else (revenue, grants, the content's other fields,
\* other contents, nextContentId, past purchase records); a purchase is
\* charged and recorded at the price stored when it executes.
C30_UpdatePriceFrame ==
    [][/\ (last'.op = "updateContentPrice" /\ last'.result = "ok") =>
             World' = [World EXCEPT !.contents[last'.id].price = last'.value]
       /\ (IsPurchase /\ last'.result = "ok") =>
             /\ totalRevenue' = totalRevenue + contents[last'.id].price
             /\ purchased' = Append(purchased, [contentId |-> last'.id, buyer |-> last'.sender, creator |-> contents[last'.id].creator, price |-> contents[last'.id].price])]_vars

C30_Witness ==
    /\ last.op = "updateContentPrice" /\ last.result = "ok"
    /\ totalRevenue > 0
    /\ \E k \in 1..Len(purchased) :
          /\ purchased[k].contentId = last.id
          /\ purchased[k].price # contents[last.id].price
          /\ totalRevenue = purchased[k].price
\* ----------------------------------------------------------------- C37
ErrOnlyOwner == "Only owner can update fee"
ErrFeeTooHigh == "Fee cannot exceed 10%"

IsFeeUpdate == last'.op = "updatePlatformFee"

\* C37: platformFee is at most 1000 basis points in every reachable state.
\* It changes only in a successful updatePlatformFee called by the owner the
\* Hub was deployed with, to the fee that call asked for, and the owner
\* never changes. An updatePlatformFee by any other caller, or asking for a
\* fee above 1000, fails and leaves platformFee and everything else
\* unchanged.
C37_PlatformFeeGuarded ==
    /\ [](platformFee <= MaxPlatformFee)
    /\ [][/\ owner' = owner
          /\ platformFee' # platformFee =>
                /\ IsFeeUpdate
                /\ last'.sender = owner
                /\ last'.result = "ok"
                /\ platformFee' = last'.value
          /\ IsFeeUpdate /\ (last'.sender # owner \/ last'.value > MaxPlatformFee) =>
                /\ last'.result = (IF last'.sender # owner THEN ErrOnlyOwner ELSE ErrFeeTooHigh)
                /\ WorldUnchanged
          /\ IsFeeUpdate /\ last'.sender = owner /\ last'.value <= MaxPlatformFee =>
                /\ last'.result = "ok"
                /\ platformFee' = last'.value]_vars

\* the owner has set the highest fee and has then been refused a higher one
C37_Witness ==
    /\ last.op = "updatePlatformFee"
    /\ last.sender = owner
    /\ last.result = ErrFeeTooHigh
    /\ platformFee = MaxPlatformFee

\* ----------------------------------------------------------------- C38
ErrUnavailable == "Service temporarily unavailable"

\* no more than recoveryTimeout has elapsed since the last failure
WithinTimeout == clock - breaker.lastFailureTime <= recoveryTimeout

\* failureThreshold or more calls have failed with no success since
Tripped == last.streak >= failureThreshold

\* C38: failureCount is the number of failed calls since the last
\* successful one. The failed call that brings that number to
\* failureThreshold or more leaves the state OPEN, and the state stays
\* OPEN while no more than recoveryTimeout has elapsed since the last
\* failure. Every execute made in that time throws "Service temporarily
\* unavailable" without invoking the wrapped operation and leaves
\* failureCount, lastFailureTime and state unchanged.
C38_OpenRejectsCalls ==
    /\ [](breaker.failureCount = last.streak)
    /\ [](Tripped /\ WithinTimeout => breaker.state = "OPEN")
    /\ [][/\ last'.op = "onFailure" /\ last'.streak >= failureThreshold =>
                breaker'.state = "OPEN"
          /\ last'.op = "execute" /\ Tripped /\ WithinTimeout =>
                /\ last'.result = ErrUnavailable
                /\ inFlight' = inFlight
                /\ breaker' = breaker]_vars

\* a call has been refused exactly recoveryTimeout after the third failure
C38_Witness ==
    /\ last.op = "execute"
    /\ last.result = ErrUnavailable
    /\ last.streak = failureThreshold
    /\ clock - breaker.lastFailureTime = recoveryTimeout
    /\ breaker.state = "OPEN"

\* ----------------------------------------------------------------- C39
\* C39: the state is OPEN or HALF_OPEN only while failureCount is at
\* least failureThreshold. A wrapped operation that fails while the state
\* is HALF_OPEN leaves it OPEN; one that succeeds leaves it CLOSED with
\* failureCount 0.
C39_HalfOpenOutcome ==
    /\ [](breaker.state \in {"OPEN", "HALF_OPEN"} => breaker.failureCount >= failureThreshold)
    /\ [][/\ breaker.state = "HALF_OPEN" /\ last'.op = "onFailure" =>
                breaker'.state = "OPEN"
          /\ breaker.state = "HALF_OPEN" /\ last'.op = "onSuccess" =>
                /\ breaker'.state = "CLOSED"
                /\ breaker'.failureCount = 0]_vars

\* a probe admitted after an earlier probe had failed has succeeded
C39_Witness ==
    /\ last.op = "onSuccess"
    /\ last.from = "HALF_OPEN"
    /\ breaker.state = "CLOSED"
    /\ breaker.failureCount = 0
    /\ breaker.lastFailureTime > recoveryTimeout

\* ----------------------------------------------------------------- C31
IsLedgerCreate == last'.op = "ContentPayment.createContent"

\* C31, as stated: a createContent called on the ledger with the zero
\* address as _creator fails with an invalid-input error and creates no
\* content.
C31_AsStated ==
    [][IsLedgerCreate /\ last'.sender = ZeroAddr =>
          /\ last'.result \in ErrInvalidContent
          /\ nextContentId' = nextContentId
          /\ contents' = contents]_vars

\* ----------------------------------------------------------------- C33
\* C33: in every state, whoever holds a stored access grant for a content
\* id holds it for an id that has been created (1 <= id < nextContentId)
\* and is not the creator of that content. Holds for calls made through
\* the Hub and directly on the ledger, for any address named as _buyer or
\* _creator.
C33_GrantsOnlyForOthersContent ==
    \A u \in Holders, i \in ContentIds :
        userAccess[u][i] => Exists(i) /\ u # contents[i].creator

\* someone else holds a grant, and the creator, named as _buyer of their
\* own content in a direct call, has just been refused
C33_Witness ==
    /\ last.op = "ContentPayment.purchaseContent"
    /\ last.result = ErrSelfPurchase
    /\ last.buyer = contents[last.id].creator
    /\ \E u \in Holders : userAccess[u][last.id]
    /\ ~userAccess[last.buyer][last.id]

\* ----------------------------------------------------------------- C34
IsAnyPurchase == last'.op \in {"purchaseContent", "ContentPayment.purchaseContent"}

\* balances after sender paid value, creator received price and buyer
\* received the rest
Settled(bal, sender, buyer, creator, price, value) ==
    LET paid == [bal EXCEPT ![sender] = @ - value]
        earned == [paid EXCEPT ![creator] = @ + price]
    IN  [earned EXCEPT ![buyer] = @ + (value - price)]

\* C34: every operation leaves the balance of the ContentPayment contract
\* and the balance of the Hub as they were before it, which is 0. A
\* successful purchase moves the price to the creator and the amount paid
\* less the price to the buyer; a failed purchase leaves every balance as
\* it was.
C34_LedgerRetainsNothing ==
    /\ [](balance[LedgerAddr] = 0 /\ balance[HubAddr] = 0)
    /\ [][/\ balance'[LedgerAddr] = balance[LedgerAddr]
          /\ balance'[HubAddr] = balance[HubAddr]
          /\ IsAnyPurchase /\ last'.result = "ok" =>
                balance' = Settled(balance, last'.sender, last'.buyer, contents[last'.id].creator,
                                   contents[last'.id].price, last'.value)
          /\ IsAnyPurchase /\ last'.result # "ok" => balance' = balance]_vars

\* an overpaid purchase made for someone else has completed
C34_Witness ==
    /\ last.op = "ContentPayment.purchaseContent"
    /\ last.result = "ok"
    /\ last.buyer # last.sender
    /\ last.value > contents[last.id].price
    /\ balance[LedgerAddr] = 0
    /\ balance[last.sender] < InitBalance

\* ----------------------------------------------------------------- C32
\* C32: in every state reached through the Hub's registerCreator,
\* createContent, registerAndCreateContent and purchaseContent, with
\* profile updates, price updates and deactivations by the callers, the
\* creator of every content that has been created is a registered creator.
C32_ContentCreatorsRegistered ==
    \A i \in ContentIds : Exists(i) => isCreator(World, contents[i].creator)

\* two creators have published, and the first content has been deactivated
C32_Witness ==
    /\ Exists(2)
    /\ contents[1].creator # contents[2].creator
    /\ ~contents[1].isActive
    /\ contents[2].isActive

\* ----------------------------------------------------------------- C35
\* C35: a successful purchase leaves every content record, every creator
\* record, nextContentId, totalCreators, the creators' content lists, the
\* Hub's owner and fee and every access grant other than the buyer's grant
\* for the purchased content unchanged, and changes the balance of no
\* account other than the buyer and the creator.
C35_PurchaseFrame ==
    [][IsPurchase /\ last'.result = "ok" =>
          /\ contents' = contents
          /\ creators' = creators
          /\ nextContentId' = nextContentId
          /\ totalCreators' = totalCreators
          /\ creatorContents' = creatorContents
          /\ created' = created
          /\ owner' = owner
          /\ platformFee' = platformFee
          /\ userAccess' = [userAccess EXCEPT ![last'.sender][last'.id] = TRUE]
          /\ totalRevenue' = totalRevenue + contents[last'.id].price
          /\ \A a \in Accounts \ {last'.sender, contents[last'.id].creator} :
                balance'[a] = balance[a]]_vars

\* one creator has two contents for sale; a buyer holds the first and has
\* not bought the second
C35_Witness ==
    /\ last.op = "purchaseContent"
    /\ last.result = "ok"
    /\ last.id = 1
    /\ Exists(2)
    /\ contents[2].isActive
    /\ contents[2].creator = contents[1].creator
    /\ userAccess[last.sender][1]
    /\ ~userAccess[last.sender][2]

\* ----------------------------------------------------------------- C36
\* C36: once a content has been created, no step changes its contentId,
\* creator, title, contentHash or createdAt. Its price changes only in a
\* successful updateContentPrice of that content, to the price asked for,
\* and its active flag changes only in a successful deactivateContent of
\* that content, to inactive.
C36_ContentRecordStable ==
    [][\A i \in ContentIds : Exists(i) =>
          /\ contents'[i].contentId = contents[i].contentId
          /\ contents'[i].creator = contents[i].creator
          /\ contents'[i].title = contents[i].title
          /\ contents'[i].contentHash = contents[i].contentHash
          /\ contents'[i].createdAt = contents[i].createdAt
          /\ contents'[i].price # contents[i].price =>
                /\ last' = [last' EXCEPT !.op = "updateContentPrice", !.id = i, !.result = "ok"]
                /\ contents'[i].price = last'.value
          /\ contents'[i].isActive # contents[i].isActive =>
                /\ last' = [last' EXCEPT !.op = "deactivateContent", !.id = i, !.result = "ok"]
                /\ ~contents'[i].isActive]_vars

\* a content sold at one price has been re-priced and then deactivated, and
\* is still the record its creator published
C36_Witness ==
    /\ last.op = "deactivateContent"
    /\ last.result = "ok"
    /\ ~contents[last.id].isActive
    /\ contents[last.id].contentId = last.id
    /\ contents[last.id].creator = last.sender
    /\ contents[last.id].title = "Tutorial"
    /\ \E k \in 1..Len(purchased) :
          /\ purchased[k].contentId = last.id
          /\ purchased[k].price # contents[last.id].price

====
